---------------------------- MODULE Spec2Model ----------------------------
(***************************************************************************)
(* A model of wordmap_generator.py: the section extractor                  *)
(* (extract_description), the name heuristic (is_likely_name), the keyword *)
(* normalizer (extract_keywords) and the aggregation / reporting run       *)
(* (main).                                                                 *)
(*                                                                         *)
(* Text is modelled character by character: a Python str is a sequence of  *)
(* one-character strings.  Words that are looked up in the large literal   *)
(* sets are joined back into a TLA+ string (Str).                          *)
(***************************************************************************)
EXTENDS Naturals, Sequences, FiniteSets, TLC

VARIABLES
    issues,           \* main: the loaded collection (list of issue records)
    idx,              \* main: index of the next issue the for-loop visits
    body,             \* main: the local `body` of the current iteration
    description,      \* main: the local `description`
    keywords,         \* main: the local `keywords` (last extract_keywords result)
    keyword_counts,   \* main: the Counter, as its items() in insertion order
    processed_count,  \* main: processed_count
    top,              \* the rows printed by the "Top 50 Keywords" listing
    csv,              \* the data rows written to keyword_frequencies.csv
    out,              \* the reporting steps performed so far, in order
    pc                \* position in main

vars == <<issues, idx, body, description, keywords, keyword_counts,
          processed_count, top, csv, out, pc>>

---------------------------------------------------------------------------
(* Characters and the str methods the program uses.                        *)

UpperChars == <<"A","B","C","D","E","F","G","H","I","J","K","L","M",
                "N","O","P","Q","R","S","T","U","V","W","X","Y","Z">>
LowerChars == <<"a","b","c","d","e","f","g","h","i","j","k","l","m",
                "n","o","p","q","r","s","t","u","v","w","x","y","z">>
Digits     == {"0","1","2","3","4","5","6","7","8","9"}
Whitespace == {" ", "\t", "\n", "\r"}

IsUpperChar(c) == c \in {UpperChars[i] : i \in DOMAIN UpperChars}
IsLowerChar(c) == c \in {LowerChars[i] : i \in DOMAIN LowerChars}
IsDigitChar(c) == c \in Digits
IsSpaceChar(c) == c \in Whitespace
\* \w of the re module: alphanumerics and the underscore
IsWordChar(c)  == IsUpperChar(c) \/ IsLowerChar(c) \/ IsDigitChar(c) \/ c = "_"

LowerChar(c) ==
    IF IsUpperChar(c)
    THEN LowerChars[CHOOSE i \in DOMAIN UpperChars : UpperChars[i] = c]
    ELSE c

\* a list built element by element: the sequence with the elements of f
List(f) == SubSeq(f, 1, Len(f))

\* str.lower()
lower(s) == List([i \in 1..Len(s) |-> LowerChar(s[i])])

\* str.isupper(): at least one cased character and no lowercase one
isupper(s) == /\ \E i \in 1..Len(s) : IsUpperChar(s[i])
              /\ \A i \in 1..Len(s) : ~IsLowerChar(s[i])

\* str.isdigit(): non-empty and every character a digit
isdigit(s) == Len(s) > 0 /\ \A i \in 1..Len(s) : IsDigitChar(s[i])

\* str.strip(chars) with `chars` a set of characters
StripSet(s, chars) ==
    LET keep == {i \in 1..Len(s) : s[i] \notin chars}
    IN  IF keep = {} THEN <<>>
        ELSE LET lo == CHOOSE i \in keep : \A j \in keep : i <= j
                 hi == CHOOSE i \in keep : \A j \in keep : i >= j
             IN  SubSeq(s, lo, hi)

\* str.strip()
strip(s) == StripSet(s, Whitespace)

\* the indices of 1..n that are in S, in increasing order
Indices(n, S) ==
    LET Chosen(i) == i \in S
    IN  SelectSeq([i \in 1..n |-> i], Chosen)

\* str.split(): the maximal runs of non-whitespace characters, in order
split(s) ==
    LET IsStart(i) == ~IsSpaceChar(s[i]) /\ (i = 1 \/ IsSpaceChar(s[i - 1]))
        starts == Indices(Len(s), {i \in 1..Len(s) : IsStart(i)})
        EndOf(b) == LET stops == {j \in b..Len(s) : IsSpaceChar(s[j])}
                    IN  IF stops = {} THEN Len(s)
                        ELSE (CHOOSE j \in stops : \A k \in stops : j <= k) - 1
    IN  List([n \in 1..Len(starts) |-> SubSeq(s, starts[n], EndOf(starts[n]))])

\* the Python str a sequence of characters stands for, for set lookups
RECURSIVE Str(_)
Str(s) == IF s = <<>> THEN "" ELSE Head(s) \o Str(Tail(s))

\* the pattern `lit` matches s at position p; IGNORECASE folds both sides
MatchesAt(s, p, lit, ignorecase) ==
    /\ p >= 1
    /\ p + Len(lit) - 1 <= Len(s)
    /\ \A i \in 1..Len(lit) :
         IF ignorecase THEN LowerChar(s[p + i - 1]) = LowerChar(lit[i])
                       ELSE s[p + i - 1] = lit[i]

---------------------------------------------------------------------------
(* The lexical filters.                                                    *)

STOP_WORDS == {
    "a", "an", "and", "are", "as", "at", "be", "by",
    "for", "from", "has", "he", "in", "is", "it", "its",
    "of", "on", "that", "the", "to", "was", "will", "with",
    "i", "am", "my", "we", "this", "have", "been", "would",
    "using", "use", "also", "can", "may", "or", "but", "if",
    "so", "than", "do", "does", "did", "which", "these", "those",
    "such", "into", "through", "during", "before", "after", "above", "below",
    "between", "under", "over", "both", "each", "few", "more", "most",
    "other", "some", "there", "their", "them", "then", "when", "where",
    "who", "why", "how", "all", "any", "been", "being", "could",
    "having", "her", "here", "him", "his", "me", "not", "now",
    "only", "our", "out", "own", "same", "should", "their", "theirs",
    "them", "themselves", "then", "there", "they", "up", "very", "what",
    "which", "while", "who", "whom", "your", "yours", "yourself", "yourselves",
    "about", "via", "via", "via", "want", "like", "need", "get",
    "work", "working", "used", "try", "trying", "test", "testing", "currently",
    "able", "plan", "planning", "etc", "just", "really", "please", "thanks",
    "thank", "hi", "hello", "hey", "one", "two", "three", "morphocloud",
    "university", "instance", "create", "created", "creating", "participant", "workshop", "github",
    "issue", "well", "attending", "orcid", "usa", "america", "american", "states",
    "united", "california", "texas", "florida", "new", "york", "washington", "oregon",
    "colorado", "arizona", "utah", "nevada", "illinois", "ohio", "michigan", "pennsylvania",
    "massachusetts", "virginia", "georgia", "north", "carolina", "south", "tennessee", "kentucky",
    "alabama", "louisiana", "mississippi", "arkansas", "oklahoma", "kansas", "nebraska", "iowa",
    "missouri", "wisconsin", "minnesota", "indiana", "maryland", "delaware", "connecticut", "rhode",
    "island", "vermont", "hampshire", "maine", "west", "seattle", "portland", "denver",
    "phoenix", "chicago", "boston", "atlanta", "houston", "dallas", "austin", "miami",
    "philadelphia", "detroit", "baltimore", "japan", "japanese", "tokyo", "kyoto", "osaka",
    "china", "chinese", "beijing", "shanghai", "canada", "canadian", "toronto", "vancouver",
    "montreal", "ottawa", "england", "london", "britain", "british", "uk", "scotland",
    "wales", "ireland", "france", "french", "paris", "germany", "german", "berlin",
    "spain", "spanish", "madrid", "italy", "italian", "rome", "netherlands", "dutch",
    "amsterdam", "belgium", "brussels", "switzerland", "swiss", "sweden", "stockholm", "norway",
    "denmark", "finland", "austria", "poland", "portugal", "greece", "russia", "australia",
    "australian", "sydney", "melbourne", "zealand", "auckland", "india", "indian", "delhi",
    "mumbai", "brazil", "brazilian", "mexico", "mexican", "argentina", "chile", "peru",
    "colombia", "africa", "african", "kenya", "egypt", "europe", "european", "asia",
    "asian", "kyushu", "louisville"
}

COMMON_NAMES == {
    "john", "mary", "michael", "sarah", "david", "james", "robert", "jennifer",
    "william", "linda", "richard", "patricia", "charles", "barbara", "joseph", "elizabeth",
    "thomas", "susan", "christopher", "jessica", "daniel", "karen", "matthew", "nancy",
    "anthony", "lisa", "mark", "betty", "donald", "margaret", "steven", "sandra",
    "paul", "ashley", "andrew", "kimberly", "joshua", "emily", "kenneth", "donna",
    "kevin", "michelle", "brian", "carol", "george", "amanda", "edward", "melissa",
    "ronald", "deborah", "timothy", "stephanie", "jason", "rebecca", "jeffrey", "sharon",
    "ryan", "laura", "jacob", "cynthia", "gary", "kathleen", "nicholas", "amy",
    "eric", "shirley", "jonathan", "angela", "stephen", "helen", "larry", "anna",
    "justin", "brenda", "scott", "pamela", "brandon", "nicole", "benjamin", "emma",
    "samuel", "samantha", "raymond", "katherine", "patrick", "christine", "alexander", "debra",
    "jack", "rachel", "dennis", "catherine", "jerry", "carolyn", "tyler", "janet",
    "aaron", "ruth", "jose", "maria", "adam", "heather", "henry", "diane",
    "nathan", "virginia", "douglas", "julie", "zachary", "joyce", "peter", "victoria",
    "kyle", "olivia", "walter", "kelly", "ethan", "christina", "jeremy", "lauren",
    "harold", "joan", "keith", "evelyn", "christian", "judith", "roger", "megan",
    "noah", "cheryl", "gerald", "andrea", "carl", "hannah", "terry", "jacqueline",
    "sean", "martha", "austin", "gloria", "arthur", "teresa", "lawrence", "ann",
    "jesse", "sara", "dylan", "madison", "bryan", "frances", "joe", "kathryn",
    "jordan", "janice", "billy", "jean", "bruce", "abigail", "albert", "sophia",
    "willie", "isabella", "gabriel", "charlotte", "logan", "amelia", "alan", "mia",
    "juan", "harper", "wayne", "evelyn", "roy", "ella", "ralph", "scarlett",
    "randy", "grace", "eugene", "chloe", "vincent", "lily", "russell", "ellie",
    "elijah", "lucy", "louis", "addison", "bobby", "natalie", "philip", "lillian",
    "johnny", "leah", "karly", "cohen", "murat", "maga", "luke", "rose",
    "yuto", "sano", "anthony", "lee", "annika", "dawley", "participant"
}

segmentation  == <<"s","e","g","m","e","n","t","a","t","i","o","n">>
morphometrics == <<"m","o","r","p","h","o","m","e","t","r","i","c","s">>

\* a table whose values are not all canonical: "segments" goes to "segment",
\* which the table rewrites again
CANONICAL_FORMS_Chained ==
    [w \in {"segment", "segments", "segmenting", "segmentation",
            "morphometric", "morphometrics"} |->
        IF w \in {"morphometric", "morphometrics"} THEN morphometrics
        ELSE IF w = "segments" THEN <<"s","e","g","m","e","n","t">>
        ELSE segmentation]

\* CANONICAL_FORMS: surface form -> canonical keyword
CANONICAL_FORMS ==
    [w \in {"segment", "segments", "segmenting", "segmentation",
            "morphometric", "morphometrics"} |->
        IF w \in {"morphometric", "morphometrics"} THEN morphometrics
        ELSE segmentation]

---------------------------------------------------------------------------
(* Python values: the body of an issue is a str or None; the key may be    *)
(* missing from the record altogether.                                     *)

PyNone     == [isNone |-> TRUE,  s |-> <<>>]
PyStr(s)   == [isNone |-> FALSE, s |-> s]
\* truthiness of a str-or-None value
Truthy(v)  == ~v.isNone /\ v.s # <<>>

IssueWithBody(v) == [has_body |-> TRUE,  body |-> v]
IssueNoBody      == [has_body |-> FALSE, body |-> PyNone]
\* issue.get('body', '')
GetBody(issue) == IF issue.has_body THEN issue.body ELSE PyStr(<<>>)

---------------------------------------------------------------------------
(* extract_description                                                     *)

HeadingLit  == <<"#","#","#"," ","D","e","s","c","r","i","p","t","i","o","n">>
NextHeading == <<"\n","#","#","#"," ">>

Min(S) == CHOOSE x \in S : \A y \in S : x <= y
Max(S) == CHOOSE x \in S : \A y \in S : x >= y

\* length of the whitespace run of s that starts at q
WsRun(s, q) ==
    LET non == {j \in q..Len(s) : ~IsSpaceChar(s[j])}
    IN  (IF non = {} THEN Len(s) + 1 ELSE Min(non)) - q

\* The attempt of r'### Description\s*\n\n(.*?)(?=\n### |\Z)' at position p:
\* <<g, e>> with group 1 = s[g..e-1], or <<>> when the attempt fails.
\* \s* is greedy and gives characters back until \n\n follows; .*? (DOTALL)
\* grows until the lookahead holds, which it always does at the end of s.
MatchAt(s, p) ==
    IF ~MatchesAt(s, p, HeadingLit, TRUE) THEN <<>>
    ELSE LET q  == p + Len(HeadingLit)
             ks == {k \in 0..WsRun(s, q) :
                      /\ q + k + 1 <= Len(s)
                      /\ s[q + k] = "\n"
                      /\ s[q + k + 1] = "\n"}
         IN  IF ks = {} THEN <<>>
             ELSE LET g    == q + Max(ks) + 2
                      ends == {e \in g..(Len(s) + 1) :
                                 \/ e = Len(s) + 1
                                 \/ MatchesAt(s, e, NextHeading, TRUE)}
                  IN  <<g, Min(ends)>>

\* re.search: the attempt at the leftmost position that matches
Search(s) ==
    LET ps == {p \in 1..Len(s) : MatchAt(s, p) # <<>>}
    IN  IF ps = {} THEN <<>> ELSE MatchAt(s, Min(ps))

\* a body without the section is returned whole
extract_description_WholeBody(body_text) ==
    IF ~Truthy(body_text) THEN <<>>
    ELSE LET m == Search(body_text.s)
         IN  IF m # <<>> THEN strip(SubSeq(body_text.s, m[1], m[2] - 1))
             ELSE strip(body_text.s)

extract_description(body_text) ==
    IF ~Truthy(body_text) THEN <<>>
    ELSE LET m == Search(body_text.s)
         IN  IF m # <<>> THEN strip(SubSeq(body_text.s, m[1], m[2] - 1))
             ELSE <<>>

---------------------------------------------------------------------------
(* is_likely_name                                                          *)

is_likely_name(word) ==
    IF word = <<>> THEN FALSE
    ELSE IF Str(lower(word)) \in COMMON_NAMES THEN TRUE
    ELSE IF IsUpperChar(word[1]) /\ Len(word) > 2
         THEN (IF isupper(word) THEN FALSE ELSE TRUE)
    ELSE FALSE

---------------------------------------------------------------------------
(* extract_keywords                                                        *)

\* re.sub(r'\d+[a-z]*', '', text)
RECURSIVE RemoveNumbersFrom(_, _)
RemoveNumbersFrom(s, i) ==
    LET ds == {j \in i..Len(s) : IsDigitChar(s[j])}
    IN  IF ds = {} THEN SubSeq(s, i, Len(s))
        ELSE LET b  == Min(ds)
                 nd == {j \in b..Len(s) : ~IsDigitChar(s[j])}
                 d  == IF nd = {} THEN Len(s) + 1 ELSE Min(nd)
                 nl == {j \in d..Len(s) : ~IsLowerChar(s[j])}
                 e  == IF nl = {} THEN Len(s) + 1 ELSE Min(nl)
             IN  SubSeq(s, i, b - 1) \o RemoveNumbersFrom(s, e)

RemoveNumbers(s) == RemoveNumbersFrom(s, 1)

\* re.sub(r'[^\w\s-]', ' ', text)
ReplacePunct(s) ==
    List([i \in 1..Len(s) |->
            IF IsWordChar(s[i]) \/ IsSpaceChar(s[i]) \/ s[i] = "-" THEN s[i]
            ELSE " "])

NamePunct == {"-", ".", ",", "!", "?", ";", ":"}
MinLen == 3

\* the normalized tokens: text.lower(), the two substitutions, split()
Words(text) == split(ReplacePunct(RemoveNumbers(lower(text))))
\* original_text.split()
OriginalWords(text) == split(text)

\* word = word.strip('-')
WordAt(words, i) == StripSet(words[i], {"-"})

\* a token without a counterpart is paired with the empty string
OrigWordAt_EmptyFallback(words, original_words, i) ==
    IF i <= Len(original_words) THEN StripSet(original_words[i], NamePunct)
    ELSE <<>>

\* orig_word = original_words[i].strip('-.,!?;:') if i < len(original_words) else word
OrigWordAt(words, original_words, i) ==
    IF i <= Len(original_words) THEN StripSet(original_words[i], NamePunct)
    ELSE WordAt(words, i)

\* the condition without the length test
Keep_NoLengthCheck(word, orig_word) ==
    /\ Str(word) \notin STOP_WORDS
    /\ ~isdigit(word)
    /\ ~is_likely_name(orig_word)

\* the condition of the `if` in the loop
Keep(word, orig_word) ==
    /\ Len(word) >= MinLen
    /\ Str(word) \notin STOP_WORDS
    /\ ~isdigit(word)
    /\ ~is_likely_name(orig_word)

\* the token is emitted as it is
Canon_Skipped(word) == word

\* CANONICAL_FORMS[word] if word in CANONICAL_FORMS else word
Canon(word) ==
    IF Str(word) \in DOMAIN CANONICAL_FORMS THEN CANONICAL_FORMS[Str(word)]
    ELSE word

\* the loop over enumerate(words): the canonical form of every token the
\* `if` keeps, in token order
KeywordsFrom(words, original_words) ==
    LET Kept(i) == Keep(WordAt(words, i), OrigWordAt(words, original_words, i))
        kept == Indices(Len(words), {i \in 1..Len(words) : Kept(i)})
    IN  List([n \in 1..Len(kept) |-> Canon(WordAt(words, kept[n]))])

extract_keywords(text) ==
    IF text = <<>> THEN <<>>
    ELSE KeywordsFrom(Words(text), OriginalWords(text))

---------------------------------------------------------------------------
(* main: the aggregation loop and the reporting steps.                     *)

\* the number of occurrences of k in the list kws
Occurrences(kws, k) == Cardinality({i \in 1..Len(kws) : kws[i] = k})

\* dict.update with the counts of this document: a key seen before is
\* overwritten, not added to
CounterUpdate_Assign(counts, kws) ==
    LET IsNew(i) == /\ \A e \in 1..Len(counts) : counts[e].word # kws[i]
                    /\ \A j \in 1..(i - 1) : kws[j] # kws[i]
        new == Indices(Len(kws), {i \in 1..Len(kws) : IsNew(i)})
    IN  [e \in 1..Len(counts) |->
            [word  |-> counts[e].word,
             count |-> IF Occurrences(kws, counts[e].word) > 0
                       THEN Occurrences(kws, counts[e].word)
                       ELSE counts[e].count]]
        \o [n \in 1..Len(new) |->
            [word  |-> kws[new[n]],
             count |-> Occurrences(kws, kws[new[n]])]]

\* keyword_counts.update(keywords): every occurrence adds one to its key;
\* a key that is new goes to the end of the dict's iteration order, in the
\* order of first appearance
CounterUpdate(counts, kws) ==
    LET IsNew(i) == /\ \A e \in 1..Len(counts) : counts[e].word # kws[i]
                    /\ \A j \in 1..(i - 1) : kws[j] # kws[i]
        new == Indices(Len(kws), {i \in 1..Len(kws) : IsNew(i)})
    IN  [e \in 1..Len(counts) |->
            [word  |-> counts[e].word,
             count |-> counts[e].count + Occurrences(kws, counts[e].word)]]
        \o [n \in 1..Len(new) |->
            [word  |-> kws[new[n]],
             count |-> Occurrences(kws, kws[new[n]])]]

\* an ascending sort read backwards: equal counts come out in reverse order
SortedByCount_TiesReversed(items) ==
    LET Before(i) == {j \in 1..Len(items) :
                        \/ items[j].count > items[i].count
                        \/ items[j].count = items[i].count /\ j > i}
        place == List([i \in 1..Len(items) |-> Cardinality(Before(i)) + 1])
    IN  List([p \in 1..Len(items) |->
                items[CHOOSE i \in 1..Len(items) : place[i] = p]])

\* sorted(keyword_counts.items(), key=lambda x: x[1], reverse=True): a
\* stable sort; an item goes behind the items with a larger count and behind
\* the earlier items with the same count
SortedByCount(items) ==
    LET Before(i) == {j \in 1..Len(items) :
                        \/ items[j].count > items[i].count
                        \/ items[j].count = items[i].count /\ j < i}
        place == List([i \in 1..Len(items) |-> Cardinality(Before(i)) + 1])
    IN  List([p \in 1..Len(items) |->
                items[CHOOSE i \in 1..Len(items) : place[i] = p]])

TopN == 50

\* the body of the for loop applied to one issue: the new values of
\* (keywords, keyword_counts, processed_count)
LoopBody(kws, counts, processed, issue) ==
    LET d == extract_description(GetBody(issue))
        found == extract_keywords(d)
    IN  IF d # <<>>
        THEN [description |-> d,
              keywords |-> found,
              keyword_counts |-> CounterUpdate(counts, found),
              processed_count |-> processed + 1]
        ELSE [description |-> d,
              keywords |-> kws,
              keyword_counts |-> counts,
              processed_count |-> processed]

\* one iteration of `for issue in issues`
ProcessIssue ==
    /\ pc = "loop"
    /\ idx <= Len(issues)
    /\ \E r \in {LoopBody(keywords, keyword_counts, processed_count, issues[idx])} :
           /\ body' = GetBody(issues[idx])
           /\ description' = r.description
           /\ keywords' = r.keywords
           /\ keyword_counts' = r.keyword_counts
           /\ processed_count' = r.processed_count
    /\ idx' = idx + 1
    /\ UNCHANGED <<issues, top, csv, out, pc>>

\* the loop is over and the table is empty: "No keywords found!" and return
NoKeywords ==
    /\ pc = "loop"
    /\ idx > Len(issues)
    /\ keyword_counts = <<>>
    /\ out' = Append(out, "no_keywords")
    /\ pc' = "done"
    /\ UNCHANGED <<issues, idx, body, description, keywords, keyword_counts,
                   processed_count, top, csv>>

\* the reports without the test for an empty table
HaveKeywords_Unguarded ==
    /\ pc = "loop"
    /\ idx > Len(issues)
    /\ pc' = "top"
    /\ UNCHANGED <<issues, idx, body, description, keywords, keyword_counts,
                   processed_count, top, csv, out>>

\* the loop is over and the table is not empty: go on to the reports
HaveKeywords ==
    /\ pc = "loop"
    /\ idx > Len(issues)
    /\ keyword_counts # <<>>
    /\ pc' = "top"
    /\ UNCHANGED <<issues, idx, body, description, keywords, keyword_counts,
                   processed_count, top, csv, out>>

\* print the top 50 keywords
PrintTop ==
    /\ pc = "top"
    /\ LET s == SortedByCount(keyword_counts)
       IN  top' = SubSeq(s, 1, IF Len(s) < TopN THEN Len(s) ELSE TopN)
    /\ out' = Append(out, "top")
    /\ pc' = "cloud"
    /\ UNCHANGED <<issues, idx, body, description, keywords, keyword_counts,
                   processed_count, csv>>

\* generate the word cloud from the frequencies and save the picture
SaveWordMap ==
    /\ pc = "cloud"
    /\ out' = Append(out, "wordmap")
    /\ pc' = "csv"
    /\ UNCHANGED <<issues, idx, body, description, keywords, keyword_counts,
                   processed_count, top, csv>>

\* write keyword_frequencies.csv
SaveCsv ==
    /\ pc = "csv"
    /\ csv' = SortedByCount(keyword_counts)
    /\ out' = Append(out, "csv")
    /\ pc' = "done"
    /\ UNCHANGED <<issues, idx, body, description, keywords, keyword_counts,
                   processed_count, top>>

---------------------------------------------------------------------------
(* Inputs.                                                                 *)

RECURSIVE Concat(_)
Concat(parts) == IF parts = <<>> THEN <<>> ELSE Head(parts) \o Concat(Tail(parts))

\* every sequence of at most n elements of S
SeqsUpTo(S, n) == UNION {[1..k -> S] : k \in 0..n}

HeadingLower == <<"#","#","#"," ","d","e","s","c","r","i","p","t","i","o","n">>
OtherHeading == <<"#","#","#"," ","O","t","h","e","r">>
NL        == <<"\n">>
BlankLine == <<"\n","\n">>
SP        == <<" ">>
w_John     == <<"J","o","h","n">>
w_john     == <<"j","o","h","n">>
w_cells    == <<"c","e","l","l","s">>
w_segment  == <<"s","e","g","m","e","n","t">>
w_segments == <<"s","e","g","m","e","n","t","s">>
w_morphometric == <<"m","o","r","p","h","o","m","e","t","r","i","c">>
w_the      == <<"t","h","e">>
w_CT       == <<"C","T">>
w_bones    == <<"b","o","n","e","s">>

\* bodies: the heading in two spellings, line breaks, another heading, text
DescAtoms == {HeadingLit, HeadingLower, BlankLine, NL, OtherHeading,
              w_cells \o SP}
MaxDescAtoms == 5
DescInputs ==
    {PyNone} \cup {PyStr(Concat(p)) : p \in SeqsUpTo(DescAtoms, MaxDescAtoms)}

\* descriptions: names, words, a number, punctuation, a hyphen, blanks
KwAtoms == {w_John, w_john, w_cells, w_segments, w_the, w_CT,
            <<"2">>, <<",">>, <<"-">>, SP}
MaxKwAtoms == 4
\* a description is what strip() returned: no blank at either end
KwInputs ==
    {t \in {Concat(p) : p \in SeqsUpTo(KwAtoms, MaxKwAtoms)} : strip(t) = t}

\* generated three-letter words, all different, none a stop word or a name
GenLetters == <<"q","x","z","k">>
GenWord(i) == <<GenLetters[((i \div 16) % 4) + 1],
                GenLetters[((i \div 4) % 4) + 1],
                GenLetters[(i % 4) + 1]>>
\* the words lo..hi separated by single blanks
GenText(lo, hi) ==
    List([c \in 1..(4 * (hi - lo + 1) - 1) |->
            IF c % 4 = 0 THEN " "
            ELSE GenWord(lo + ((c - 1) \div 4))[((c - 1) % 4) + 1]])

\* more distinct keywords than the listing shows
ManyWords == TopN + 2

Described(text) == IssueWithBody(PyStr(HeadingLit \o BlankLine \o text))

IssueSet ==
    { IssueNoBody,
      IssueWithBody(PyNone),
      IssueWithBody(PyStr(<<>>)),
      IssueWithBody(PyStr(w_cells \o SP \o w_bones)),
      IssueWithBody(PyStr(HeadingLit \o NL \o w_cells)),
      Described(w_segment \o SP \o w_cells),
      IssueWithBody(PyStr(HeadingLower \o BlankLine
                          \o w_cells \o SP \o w_segments \o SP \o w_cells
                          \o NL \o OtherHeading \o BlankLine \o w_bones)),
      Described(w_John \o SP \o w_morphometric \o SP \o w_the \o SP \o w_CT),
      Described(w_the \o SP \o w_CT),
      Described(GenText(0, ManyWords - 1)),
      Described(GenText(20, 29) \o SP \o w_bones \o SP \o w_bones) }

MaxIssues == 2

---------------------------------------------------------------------------
(* The run of main over a loaded collection.                               *)

Init ==
    /\ issues \in SeqsUpTo(IssueSet, MaxIssues)
    /\ idx = 1
    /\ body = PyStr(<<>>)
    /\ description = <<>>
    /\ keywords = <<>>
    /\ keyword_counts = <<>>
    /\ processed_count = 0
    /\ top = <<>>
    /\ csv = <<>>
    /\ out = <<>>
    /\ pc = "loop"

Next ==
    \/ ProcessIssue
    \/ NoKeywords
    \/ HaveKeywords
    \/ PrintTop
    \/ SaveWordMap
    \/ SaveCsv

Spec == Init /\ [][Next]_vars

---------------------------------------------------------------------------
(* extract_description applied to one body.                                *)

InitDesc ==
    /\ body \in DescInputs
    /\ issues = <<>>
    /\ idx = 1
    /\ description = <<>>
    /\ keywords = <<>>
    /\ keyword_counts = <<>>
    /\ processed_count = 0
    /\ top = <<>>
    /\ csv = <<>>
    /\ out = <<>>
    /\ pc = "desc"

ApplyExtractDescription ==
    /\ pc = "desc"
    /\ description' = extract_description(body)
    /\ pc' = "desc_done"
    /\ UNCHANGED <<issues, idx, body, keywords, keyword_counts,
                   processed_count, top, csv, out>>

SpecDesc == InitDesc /\ [][ApplyExtractDescription]_vars

---------------------------------------------------------------------------
(* extract_keywords and the Counter update applied to one description.     *)

\* the loop has just extracted the description d from a body that holds it
InitKw ==
    /\ \E d \in KwInputs :
         /\ description = d
         /\ body = PyStr(HeadingLit \o BlankLine \o d)
    /\ issues = <<>>
    /\ idx = 1
    /\ keywords = <<>>
    /\ keyword_counts = <<>>
    /\ processed_count = 0
    /\ top = <<>>
    /\ csv = <<>>
    /\ out = <<>>
    /\ pc = "kw"

\* `if description:` and the three statements under it
ApplyExtractKeywords ==
    /\ pc = "kw"
    /\ IF description # <<>>
       THEN \E found \in {extract_keywords(description)} :
              /\ keywords' = found
              /\ keyword_counts' = CounterUpdate(keyword_counts, found)
              /\ processed_count' = processed_count + 1
       ELSE UNCHANGED <<keywords, keyword_counts, processed_count>>
    /\ pc' = "kw_done"
    /\ UNCHANGED <<issues, idx, body, description, top, csv, out>>

SpecKw == InitKw /\ [][ApplyExtractKeywords]_vars

---------------------------------------------------------------------------
(* Properties.                                                             *)

Range(s) == {s[i] : i \in 1..Len(s)}

\* the filters other than the name filter
PassesWordFilters(w) ==
    Len(w) >= 3 /\ Str(w) \notin STOP_WORDS /\ ~isdigit(w)

\* w is a surface variant of k: the canonical-form table sends w to k, or
\* the table does not list w and w is k itself
RewritesTo(w, k) ==
    IF Str(w) \in DOMAIN CANONICAL_FORMS THEN CANONICAL_FORMS[Str(w)] = k
    ELSE w = k

\* C1: every keyword emitted by extract_keywords, and so every key of the
\* Frequency Table, has at least three characters and is not purely numeric,
\* the keywords rewritten through CANONICAL_FORMS included.
C1_KeywordsWellFormed ==
    /\ \A i \in 1..Len(keywords) :
         Len(keywords[i]) >= 3 /\ ~isdigit(keywords[i])
    /\ \A i \in 1..Len(keyword_counts) :
         /\ Len(keyword_counts[i].word) >= 3
         /\ ~isdigit(keyword_counts[i].word)
         /\ keyword_counts[i].count >= 1

\* a description with a short or numeric token and a rewritten keyword
C1_Witness ==
    /\ pc = "kw_done"
    /\ \E t \in Range(OriginalWords(description)) : isdigit(t)
    /\ \E t \in Range(OriginalWords(description)) : Len(t) < 3
    /\ \E i \in 1..Len(keyword_counts) : keyword_counts[i].word = segmentation

\* C9: canonical rewriting is idempotent: rewriting a rewritten word changes
\* nothing, for every value of CANONICAL_FORMS, for every token of the
\* description and for every keyword emitted.
C9_CanonIdempotent ==
    /\ \A k \in DOMAIN CANONICAL_FORMS :
         Canon(CANONICAL_FORMS[k]) = CANONICAL_FORMS[k]
    /\ \A w \in Range(Words(description)) :
         Canon(Canon(StripSet(w, {"-"}))) = Canon(StripSet(w, {"-"}))
    /\ \A k \in Range(keywords) : Canon(k) = k

\* a token was rewritten to its canonical form and emitted
C9_Witness ==
    /\ pc = "kw_done"
    /\ \E w \in Range(Words(description)) : Canon(w) # w /\ Canon(w) \in Range(keywords)

\* the normalized tokens an original token gives rise to
PiecesOf(t) == {StripSet(w, {"-"}) : w \in Range(Words(t))}
\* the original token is a common first name
IsCommonName(t) == Str(lower(StripSet(t, NamePunct))) \in COMMON_NAMES

\* C3 (as claimed): a token whose original-case form lowercases to a common
\* first name is never emitted.  Stated for the descriptions in which only
\* such tokens normalize to a common first name: no keyword emitted for them
\* is a common first name.
C3_NamesExcluded ==
    (/\ pc = "kw_done"
     /\ \A t \in Range(OriginalWords(description)) :
          (\E p \in PiecesOf(t) : Str(p) \in COMMON_NAMES) => IsCommonName(t))
    => \A k \in Range(keywords) : Str(k) \notin COMMON_NAMES

\* the keywords of a description when a token without an original-case
\* counterpart counts as a name exactly if it is one of `names`
ExpectedKeywords(text, names) ==
    LET words == Words(text)
        original_words == OriginalWords(text)
        Kept(i) ==
            /\ PassesWordFilters(WordAt(words, i))
            /\ IF i <= Len(original_words)
               THEN ~is_likely_name(StripSet(original_words[i], NamePunct))
               ELSE Str(WordAt(words, i)) \notin names
        kept == Indices(Len(words), {i \in 1..Len(words) : Kept(i)})
    IN  List([n \in 1..Len(kept) |-> Canon(WordAt(words, kept[n]))])

\* C10 (as claimed): a normalized token whose index is out of range of the
\* original-case token list is treated as a non-name, so it is kept whenever
\* it passes the length, stop-word and numeric filters.
C10_OutOfRangeNonName ==
    pc = "kw_done" => keywords = ExpectedKeywords(description, {})

\* C10 (amended): such a token is its own counterpart: the name filter
\* excludes it exactly when it is a common first name.
C10_OutOfRangeSelf ==
    pc = "kw_done" => keywords = ExpectedKeywords(description, COMMON_NAMES)

\* an out-of-range token that is a common first name and passes the other
\* filters was dropped
C10_Witness ==
    /\ pc = "kw_done"
    /\ LET words == Words(description)
       IN  \E i \in (Len(OriginalWords(description)) + 1)..Len(words) :
             /\ PassesWordFilters(WordAt(words, i))
             /\ Str(WordAt(words, i)) \in COMMON_NAMES
             /\ WordAt(words, i) \notin Range(keywords)
    /\ keywords # <<>>

\* the body holds the Description heading followed by a blank line
HeadingStarts(s) ==
    {p \in 1..Len(s) :
       /\ MatchesAt(s, p, HeadingLit, TRUE)
       /\ \E k \in 0..Len(s) :
            /\ \A j \in 0..(k - 1) :
                 p + Len(HeadingLit) + j <= Len(s)
                 /\ IsSpaceChar(s[p + Len(HeadingLit) + j])
            /\ MatchesAt(s, p + Len(HeadingLit) + k, <<"\n", "\n">>, FALSE)}

\* the text between the first such heading and the next heading marker
\* (a line break followed by "### "), or the end of the body
SectionText(s) ==
    LET q    == Min(HeadingStarts(s)) + Len(HeadingLit)
        ends == {e \in q..(Len(s) + 1) :
                   e = Len(s) + 1 \/ MatchesAt(s, e, NextHeading, FALSE)}
    IN  SubSeq(s, q, Min(ends) - 1)

\* C2 (as claimed): for a body with the Description heading followed by a
\* blank line, extract_description returns the trimmed text between that
\* heading and the next heading marker, never a later heading or what
\* follows it, also when the section is empty.
C2_ExactSection ==
    (pc = "desc_done" /\ ~body.isNone /\ HeadingStarts(body.s) # {})
    => description = strip(SectionText(body.s))

\* what does hold: the two agree whenever the section is not empty
C2_ExactWhenNotEmpty ==
    (/\ pc = "desc_done" /\ ~body.isNone /\ HeadingStarts(body.s) # {}
     /\ strip(SectionText(body.s)) # <<>>)
    => description = strip(SectionText(body.s))

\* the table as a mapping: its (keyword, count) pairs without their order
AsMap(counts) == {<<counts[i].word, counts[i].count>> : i \in 1..Len(counts)}

\* the aggregation loop run over a whole collection
RECURSIVE RunLoopFrom(_, _, _)
RunLoopFrom(counts, docs, i) ==
    IF i > Len(docs) THEN counts
    ELSE RunLoopFrom(LoopBody(<<>>, counts, 0, docs[i]).keyword_counts, docs, i + 1)

RunLoop(docs) == RunLoopFrom(<<>>, docs, 1)

Perms(n) == {f \in [1..n -> 1..n] : \A i, j \in 1..n : f[i] = f[j] => i = j}

\* the issue has no body, an empty body or a body without the heading
NoSection(issue) ==
    LET b == GetBody(issue)
    IN  \/ b.isNone
        \/ b.s = <<>>
        \/ ~\E p \in 1..Len(b.s) : MatchesAt(b.s, p, HeadingLit, TRUE)

\* C4: processing a document whose body is absent, empty or without the
\* Description heading extracts the empty string, leaves the Frequency Table
\* as it was and goes on to the next document.
C4_NoSectionNoEffect ==
    [][(pc = "loop" /\ idx <= Len(issues) /\ NoSection(issues[idx]))
       => /\ description' = <<>>
          /\ keyword_counts' = keyword_counts
          /\ processed_count' = processed_count
          /\ idx' = idx + 1
          /\ pc' = "loop"]_vars

\* a document without a section was processed after one that filled the table
C4_Witness ==
    /\ pc = "loop"
    /\ idx = 3
    /\ NoSection(issues[2])
    /\ GetBody(issues[2]).s # <<>>
    /\ keyword_counts # <<>>

\* C5: the table the loop ends with is the same mapping for every order of
\* the documents.
C5_OrderIrrelevant ==
    (pc = "loop" /\ idx > Len(issues))
    => \A f \in Perms(Len(issues)) :
         AsMap(RunLoop(List([i \in 1..Len(issues) |-> issues[f[i]]])))
           = AsMap(keyword_counts)

\* two documents that share a keyword and insert the keys in another order
C5_Witness ==
    /\ pc = "loop"
    /\ idx > Len(issues)
    /\ Len(issues) = 2
    /\ RunLoop(<<issues[2], issues[1]>>) # keyword_counts
    /\ \E e1 \in Range(RunLoop(<<issues[1]>>)) :
         \E e2 \in Range(RunLoop(<<issues[2]>>)) :
           e1.word = e2.word /\ e1.count # e2.count

\* the tokens of one issue that pass every filter, before canonical rewriting
KeptTokens(issue) ==
    LET d == extract_description(GetBody(issue))
        words == Words(d)
        original_words == OriginalWords(d)
        Kept(i) == /\ PassesWordFilters(WordAt(words, i))
                   /\ ~is_likely_name(OrigWordAt(words, original_words, i))
        kept == Indices(Len(words), {i \in 1..Len(words) : Kept(i)})
    IN  List([n \in 1..Len(kept) |-> WordAt(words, kept[n])])

\* the occurrences among the tokens toks of the surface variants of keyword k
VariantCount(toks, k) == Cardinality({i \in 1..Len(toks) : RewritesTo(toks[i], k)})

RECURSIVE SumTo(_, _)
SumTo(f, n) == IF n = 0 THEN 0 ELSE SumTo(f, n - 1) + f[n]

\* C6: the table has no key that CANONICAL_FORMS rewrites to another string,
\* and the count of a key is the number of kept occurrences of all its
\* variants in the documents processed so far, each appearance counted.
C6_CanonicalAggregation ==
    pc = "loop" =>
    LET toks == List([n \in 1..(idx - 1) |-> KeptTokens(issues[n])])
        Total(k) == SumTo([n \in 1..(idx - 1) |-> VariantCount(toks[n], k)], idx - 1)
    IN  /\ \A i \in 1..Len(keyword_counts) :
             LET k == keyword_counts[i].word
             IN  /\ RewritesTo(k, k)
                 /\ keyword_counts[i].count = Total(k)
        /\ \A n \in 1..(idx - 1) : \A j \in 1..Len(toks[n]) :
             \E i \in 1..Len(keyword_counts) :
               RewritesTo(toks[n][j], keyword_counts[i].word)

\* two variants of one canonical form, from two documents, under one key,
\* and a keyword that one document repeats
C6_Witness ==
    /\ idx > Len(issues)
    /\ Len(issues) = 2
    /\ VariantCount(KeptTokens(issues[1]), segmentation) = 1
    /\ VariantCount(KeptTokens(issues[2]), segmentation) = 1
    /\ \E w1 \in Range(Words(extract_description(GetBody(issues[1])))) :
         \E w2 \in Range(Words(extract_description(GetBody(issues[2])))) :
           /\ w1 # w2
           /\ RewritesTo(w1, segmentation)
           /\ RewritesTo(w2, segmentation)
    /\ \E i \in 1..Len(keyword_counts) :
         keyword_counts[i] = [word |-> segmentation, count |-> 2]
    /\ \E i \in 1..Len(keyword_counts) :
         VariantCount(KeptTokens(issues[2]), keyword_counts[i].word) = 2

Reported == \E i \in 1..Len(out) : out[i] \in {"top", "wordmap", "csv"}

\* C7: a run whose table is empty after the last document signals "no
\* keywords found" and ends without the listing, the visualization or the
\* export; those steps happen only with a non-empty table and only after
\* the last document has been aggregated.
C7_EmptyTableSkipsReports ==
    /\ Reported => (keyword_counts # <<>> /\ idx > Len(issues))
    /\ (pc = "done" /\ keyword_counts = <<>>)
         => (out = <<"no_keywords">> /\ top = <<>> /\ csv = <<>>)
    /\ (pc = "loop" /\ idx > Len(issues) /\ keyword_counts = <<>>)
         => (ENABLED NoKeywords /\ ~ENABLED HaveKeywords)
    /\ pc \in {"top", "cloud", "csv"} => keyword_counts # <<>>
    /\ ("no_keywords" \in Range(out)) => (keyword_counts = <<>> /\ pc = "done")

\* a run over documents, one of them with a description, that found nothing
C7_Witness ==
    /\ pc = "done"
    /\ keyword_counts = <<>>
    /\ out = <<"no_keywords">>
    /\ Len(issues) > 0
    /\ processed_count > 0

\* the place of keyword w in the table's iteration order
PlaceOf(w) == CHOOSE i \in 1..Len(keyword_counts) : keyword_counts[i].word = w

\* rows are entries of the table, by count descending, equal counts in the
\* table's iteration order
Ranked(rows) ==
    /\ \A j \in 1..Len(rows) : rows[j] \in Range(keyword_counts)
    /\ LET place == List([j \in 1..Len(rows) |-> PlaceOf(rows[j].word)])
       IN  \A a, b \in 1..Len(rows) :
             a < b => \/ rows[a].count > rows[b].count
                      \/ rows[a].count = rows[b].count /\ place[a] < place[b]

\* C8: the export lists every key once, by count descending with equal
\* counts in the table's iteration order, and the top-N listing is the
\* first min(50, number of keys) rows of that ordering.
C8_RankedListing ==
    /\ (pc = "done" /\ "csv" \in Range(out)) =>
         /\ Ranked(csv)
         /\ Len(csv) = Len(keyword_counts)
         /\ \A e \in Range(keyword_counts) :
              Cardinality({j \in 1..Len(csv) : csv[j].word = e.word}) = 1
         /\ top = SubSeq(csv, 1, IF Len(csv) < 50 THEN Len(csv) ELSE 50)
    /\ pc = "cloud" =>
         /\ Ranked(top)
         /\ Len(top) = (IF Len(keyword_counts) < 50 THEN Len(keyword_counts) ELSE 50)
         /\ \A e \in Range(keyword_counts) :
              e \notin Range(top) =>
                /\ top[Len(top)].count >= e.count
                /\ top[Len(top)].count = e.count
                     => PlaceOf(top[Len(top)].word) < PlaceOf(e.word)

\* more than 50 keys, with ties and with a later key ranked before an
\* earlier one
C8_Witness ==
    /\ pc = "done"
    /\ Len(csv) > 50
    /\ Len(top) = 50
    /\ csv # keyword_counts
    /\ \E a \in 1..Len(csv) : a < Len(csv) /\ csv[a].count = csv[a + 1].count
    /\ top[50].count = 1 /\ top[1].count > 1

=============================================================================
